---- MODULE Spec2Model ----
(***************************************************************************)
(* Model of OpenTESArena's DistantSky aggregate (World/DistantSky.cpp):    *)
(* the procedural generation done by DistantSky::init and the per-frame    *)
(* animation update done by DistantSky::tick.                              *)
(*                                                                         *)
(* Representation of the C++ values:                                       *)
(*  - a uint32_t is a pair <<hi, lo>> of 16-bit halves, so that the        *)
(*    generator's 32-bit multiplication stays inside the checker's ints;   *)
(*  - a std::string is a sequence of one-character strings;                *)
(*  - std::optional<int> is <<>> (nullopt) or <<i>>;                       *)
(*  - vector indices are the 0-based C++ indices (element i is seq[i+1]);  *)
(*  - an angle in radians is an integer number of units of 2*pi/512 (one   *)
(*    Arena angle unit), so 2*pi is 512, pi is 256 and pi/2 is 128;        *)
(*  - a cloud height is a number of 64ths, a moon phase a number of 32nds; *)
(*  - frame times are whole time quanta, DEFAULT_FRAME_TIME being          *)
(*    FrameTimeQuanta of them (arithmetic on them is exact);               *)
(*  - a star direction is kept symbolically: the raw vector that is        *)
(*    normalized, and the sub-star deltas that rotate it.                  *)
(***************************************************************************)
EXTENDS Integers, Sequences, FiniteSets, TLC

VARIABLES
    input,      \* the arguments of init and what the loaders hold
    pc,         \* "fresh" before DistantSky::init, "done" after it
    sky,        \* the DistantSky aggregate's members
    genStars,   \* init's local vector 'stars' after std::sort
    requests,   \* every texture request of init: filename and index it resolved to
    loads,      \* every TextureManager call of init: the filename loaded
    lastDt,     \* the argument of the last tick call (-1: none yet)
    reseeded,   \* the value init reseeded the ArenaRandom with for the clouds, if any
    result      \* the last accessor call and how it ended

vars == <<input, pc, sky, genStars, requests, loads, lastDt, reseeded, result>>

---------------------------------------------------------------------------
(* Bounds of the model *)

MaxStarCount == 30
MaxDt == 5
FrameTimeQuanta == 2
MaxFrames == 3
MaxDaySteps == 1
DayStride == 18
MaxIndex == 2

---------------------------------------------------------------------------
(* Small helpers *)

Min(S) == CHOOSE x \in S : \A y \in S : x <= y

Range(s) == {s[i] : i \in 1..Len(s)}

\* TLC evaluates an operator's argument when it is first used; a loop written
\* as a recursion evaluates each iteration's result before it goes on.
Evaluated(v) == v = v

U16 == 65536

---------------------------------------------------------------------------
(* ArenaRandom (Math/Random.h): the legacy generator.  value is 32 bits;   *)
(* next() multiplies it by 7143469 = 109 * 65536 + 45 and returns its high *)
(* 16 bits.                                                                *)

MULT_HI == 109
MULT_LO == 45

srand(seed) == seed

getSeed(random) == random

next(random) ==
    LET low == random[2] * MULT_LO
        newHi == (random[1] * MULT_LO + random[2] * MULT_HI + (low \div U16)) % U16
    IN [random |-> <<newHi, low % U16>>, value |-> newHi]

\* uint32_t addition, wrapping at 2^32
AddU32(a, k) ==
    LET low == a[2] + k
    IN <<(a[1] + (low \div U16)) % U16, low % U16>>

---------------------------------------------------------------------------
(* Strings *)

Digits == <<"0", "1", "2", "3", "4", "5", "6", "7", "8", "9">>

LowerCase == <<"a", "b", "c", "d", "e", "f", "g", "h", "i", "j", "k", "l", "m",
               "n", "o", "p", "q", "r", "s", "t", "u", "v", "w", "x", "y", "z">>

UpperCase == <<"A", "B", "C", "D", "E", "F", "G", "H", "I", "J", "K", "L", "M",
               "N", "O", "P", "Q", "R", "S", "T", "U", "V", "W", "X", "Y", "Z">>

\* std::to_string of a non-negative int
RECURSIVE to_string(_)
to_string(n) ==
    IF n < 10 THEN <<Digits[n + 1]>>
    ELSE Append(to_string(n \div 10), Digits[(n % 10) + 1])

toUppercaseChar(c) ==
    IF \E i \in 1..26 : LowerCase[i] = c
    THEN UpperCase[CHOOSE i \in 1..26 : LowerCase[i] = c]
    ELSE c

\* String::toUppercase
toUppercase(str) == [i \in 1..Len(str) |-> toUppercaseChar(str[i])]

\* std::string::find: the 0-based position of the first occurrence, or -1 (npos)
find(str, sub) ==
    LET hits == {i \in 0..(Len(str) - Len(sub)) :
                    \A k \in 1..Len(sub) : str[i + k] = sub[k]}
    IN IF hits = {} THEN -1 ELSE Min(hits)

---------------------------------------------------------------------------
(* The file names ExeData holds (exeData.locations), stored there in the   *)
(* executable's own spelling.                                              *)

distantMountainFilenames ==
    << <<"m", "o", "u", "n", "t", "n", "0", "0", ".", "i", "m", "g">>,
       <<"d", "e", "s", "e", "r", "t", "0", ".", "i", "m", "g">>,
       <<"t", "e", "m", "p", "0", "0", ".", "i", "m", "g">> >>

cloudFilename == <<"c", "l", "o", "u", "d", "0", "0", ".", "i", "m", "g">>

animDistantMountainFilenames ==
    << <<"v", "o", "l", "c", "a", "n", "o", "1", ".", "d", "f", "a">>,
       <<"v", "o", "l", "c", "a", "n", "o", "2", ".", "d", "f", "a">>,
       <<"v", "o", "l", "c", "a", "n", "o", "3", ".", "i", "m", "g">> >>

moonFilenames ==
    << <<"m", "o", "o", "n", "1", ".", "d", "f", "a">>,
       <<"m", "o", "o", "n", "2", ".", "d", "f", "a">> >>

starFilename == <<"s", "t", "a", "r", "1", ".", "i", "m", "g">>

sunFilename == <<"s", "u", "n", ".", "i", "m", "g">>

---------------------------------------------------------------------------
(* TextureManager: the image loaders.  A loaded buffer is named by the     *)
(* file and the frame it came from.                                        *)

make8BitSurface(filename) == [file |-> filename, frame |-> 0]

make8BitSurfaces(filename, frameCount) ==
    [f \in 1..frameCount |-> [file |-> filename, frame |-> f - 1]]

---------------------------------------------------------------------------
(* Program constants *)

UNIQUE_ANGLES == 512
yPosLimit == 64
cloudCount == 7
cloudPos == 5
cloudVar == 17
cloudMaxDigits == 2
phaseCount == 32
animLandGlobalPosX == 132
animLandGlobalPosY == 52

\* DistantMountainTraits per climate: filenameIndex, position, variation, maxDigits
MountainTraits ==
    [Temperate |-> [filenameIndex |-> 2, position |-> 4, variation |-> 10, maxDigits |-> 2],
     Desert    |-> [filenameIndex |-> 1, position |-> 6, variation |-> 4,  maxDigits |-> 1],
     Mountain  |-> [filenameIndex |-> 0, position |-> 6, variation |-> 11, maxDigits |-> 2]]

ClimateTypes == {"Temperate", "Desert", "Mountain"}

WeatherTypes == {"Clear", "Overcast"}

---------------------------------------------------------------------------
(* The texture store *)

\* A faulty getTextureEntryIndex: the lookup never finds an entry.
getTextureEntryIndexNeverFound(textures, filename) == <<>>

getTextureEntryIndex(textures, filename) ==
    LET hits == {i \in 1..Len(textures) : textures[i].filename = filename}
    IN IF hits # {} THEN <<Min(hits) - 1>> ELSE <<>>

getTextureSetEntryIndex(textureSets, filename) ==
    LET hits == {i \in 1..Len(textureSets) : textureSets[i].filename = filename}
    IN IF hits # {} THEN <<Min(hits) - 1>> ELSE <<>>

\* The context init works in: the aggregate's members (ctx.sky), the local
\* ArenaRandom (ctx.random), the logs of requests and loader calls, and
\* ctx.entryIndex, the index the last request resolved to.
\* "if (!entryIndex.has_value()) { load; push_back; entryIndex = size - 1; }"
addTextureIfMissing(ctx, filename, entryIndex, surface) ==
    IF entryIndex = <<>>
    THEN LET textureEntry == [filename |-> filename, texture |-> surface]
             textures == Append(ctx.sky.textures, textureEntry)
         IN [ctx EXCEPT !.sky.textures = textures,
                        !.loads = Append(@, filename),
                        !.requests = Append(@, [filename |-> filename,
                                                index |-> Len(textures) - 1]),
                        !.entryIndex = Len(textures) - 1]
    ELSE [ctx EXCEPT !.requests = Append(@, [filename |-> filename,
                                             index |-> entryIndex[1]]),
                     !.entryIndex = entryIndex[1]]

fixEntryIndexIfMissing(ctx, filename, entryIndex) ==
    addTextureIfMissing(ctx, filename, entryIndex, make8BitSurface(filename))

---------------------------------------------------------------------------
(* Static objects: mountains and clouds *)

\* A faulty arenaAngleToRadians: 0 is not moved to east.
arenaAngleToRadiansNoShift(angle) == UNIQUE_ANGLES - angle

\* Converts an Arena angle to an angle in radians (here in units of 2*pi/512):
\* (TwoPi - TwoPi * angle / 512) - HalfPi.
arenaAngleToRadians(angle) ==
    LET TwoPi == UNIQUE_ANGLES
        HalfPi == UNIQUE_ANGLES \div 4
        arenaRadians == (TwoPi * angle) \div UNIQUE_ANGLES
        flippedArenaRadians == TwoPi - arenaRadians
    IN flippedArenaRadians - HalfPi

\* The digits of the filename variant
variantDigits(randVal, var) == to_string(IF randVal = 0 THEN var ELSE randVal)

\* The filename of the image: the digits written right-aligned in the
\* maxDigits wide field at pos, then upper-cased.
staticFilename(baseFilename, pos, maxDigits, digits) ==
    LET digitCount == Len(digits)
        offset == maxDigits - digitCount
        name == [k \in 1..Len(baseFilename) |->
                    IF (k - 1) \in (pos + offset)..(pos + offset + digitCount - 1)
                    THEN digits[(k - 1) - (pos + offset) + 1]
                    ELSE baseFilename[k]]
    IN toUppercase(name)

\* The end of one iteration of placeStaticObjects' loop: the texture of the
\* filename is loaded if the store misses it, and the object is pushed.
pushStaticObject(ctx, filename, yPos, angleRadians, isLand) ==
    LET fixed == fixEntryIndexIfMissing(ctx, filename,
                    getTextureEntryIndex(ctx.sky.textures, filename))
    IN IF isLand
       THEN [fixed EXCEPT !.sky.landObjects =
                Append(@, [entryIndex |-> fixed.entryIndex,
                           angleRadians |-> angleRadians])]
       ELSE [fixed EXCEPT !.sky.airObjects =
                Append(@, [entryIndex |-> fixed.entryIndex,
                           angleRadians |-> angleRadians,
                           height |-> yPos])]

\* A faulty iteration: the angle is drawn before the height.
placeStaticObjectAngleFirst(ctx, baseFilename, pos, var, maxDigits, randomHeight) ==
    LET d1 == next(ctx.random)
        d2 == next(d1.random)
        d3 == IF randomHeight THEN next(d2.random)
              ELSE [random |-> d2.random, value |-> 0]
    IN pushStaticObject(
            [ctx EXCEPT !.random = d3.random],
            staticFilename(baseFilename, pos, maxDigits,
                           variantDigits(d1.value % var, var)),
            IF randomHeight THEN d3.value % yPosLimit ELSE 0,
            arenaAngleToRadians(d2.value % UNIQUE_ANGLES),
            ~randomHeight)

\* One iteration of placeStaticObjects' loop: the draws of the variant, of the
\* height (if randomHeight) and of the angle, in this order.
placeStaticObject(ctx, baseFilename, pos, var, maxDigits, randomHeight) ==
    LET d1 == next(ctx.random)
        d2 == IF randomHeight THEN next(d1.random)
              ELSE [random |-> d1.random, value |-> 0]
        d3 == next(d2.random)
    IN pushStaticObject(
            [ctx EXCEPT !.random = d3.random],
            staticFilename(baseFilename, pos, maxDigits,
                           variantDigits(d1.value % var, var)),
            IF randomHeight THEN d2.value % yPosLimit ELSE 0,
            arenaAngleToRadians(d3.value % UNIQUE_ANGLES),
            ~randomHeight)

\* The loop of placeStaticObjects; each iteration works on the evaluated
\* result of the one before.
RECURSIVE placeStaticObjects(_, _, _, _, _, _, _)
placeStaticObjects(ctx, count, baseFilename, pos, var, maxDigits, randomHeight) ==
    IF count > 0 /\ Evaluated(ctx)
    THEN placeStaticObjects(
            placeStaticObject(ctx, baseFilename, pos, var, maxDigits, randomHeight),
            count - 1, baseFilename, pos, var, maxDigits, randomHeight)
    ELSE ctx

\* A faulty mountain count: one mountain too few.
mountainCountOneLess(value) == (value % 4) + 1

\* The number of mountains: (random.next() % 4) + 2
mountainCount(value) == (value % 4) + 2

\* The mountains of the climate
placeMountains(ctx, climateType) ==
    LET mtnTraits == MountainTraits[climateType]
        d == next(ctx.random)
    IN placeStaticObjects([ctx EXCEPT !.random = d.random], mountainCount(d.value),
                          distantMountainFilenames[mtnTraits.filenameIndex + 1],
                          mtnTraits.position, mtnTraits.variation,
                          mtnTraits.maxDigits, FALSE)

\* The clouds, if the weather is clear
placeClouds(ctx, weatherType, currentDay) ==
    LET hasClouds == weatherType = "Clear"
        cloudSeed == AddU32(getSeed(ctx.random), currentDay % 32)
    IN IF hasClouds
       THEN placeStaticObjects([ctx EXCEPT !.random = srand(cloudSeed),
                                           !.cloudSeed = <<cloudSeed>>], cloudCount,
                               cloudFilename, cloudPos, cloudVar, cloudMaxDigits, TRUE)
       ELSE ctx

---------------------------------------------------------------------------
(* Animated distant land *)

Abs(n) == IF n < 0 THEN -n ELSE n

\* LocationUtils::getLocalCityPoint: the point packed in the city seed
getLocalCityPoint(citySeed) == [x |-> citySeed[1], y |-> citySeed[2]]

\* CityDataFile::getDistance: the legacy distance between two map points
getDistance(p1x, p1y, p2x, p2y) ==
    LET dx == Abs(p1x - p2x)
        dy == Abs(p1y - p2y)
    IN (IF dx > dy THEN dx ELSE dy) + ((IF dx < dy THEN dx ELSE dy) \div 4)

\* std::atan2(y, x) of two ints, resolved to the octant: the largest multiple of
\* pi/4 (64 units) that is not above the angle.  It is exact on the axes and
\* the diagonals, and the result is in [-pi, pi].
atan2Positive(y, x) ==
    IF y = 0 THEN (IF x >= 0 THEN 0 ELSE 4)
    ELSE IF x > 0 THEN (IF y < x THEN 0 ELSE 1)
    ELSE IF x = 0 THEN 2
    ELSE (IF y > -x THEN 2 ELSE 3)

atan2Exact(y, x) == y = 0 \/ x = 0 \/ Abs(y) = Abs(x)

atan2(y, x) ==
    LET octant == UNIQUE_ANGLES \div 8
    IN IF y >= 0 THEN octant * atan2Positive(y, x)
       ELSE IF atan2Exact(y, x) THEN -(octant * atan2Positive(-y, x))
       ELSE -(octant * (atan2Positive(-y, x) + 1))

\* Different animations based on the map distance
animIndexOf(dist) == IF dist < 80 THEN 0 ELSE IF dist < 150 THEN 1 ELSE 2

\* AnimatedLandObject's constructors
AnimatedLandObject(setEntryIndex, angleRadians) ==
    [setEntryIndex |-> setEntryIndex,
     angleRadians |-> angleRadians,
     targetFrameTime |-> FrameTimeQuanta,
     currentFrameTime |-> 0,
     index |-> 0]

\* "if (!setEntryIndex.has_value()) { load the set; push_back; setEntryIndex =
\* size - 1; }", ctx.entryIndex being the index the set resolved to.
addTextureSetIfMissing(ctx, filename, setEntryIndex, surfaces) ==
    IF setEntryIndex = <<>>
    THEN [ctx EXCEPT !.sky.textureSets =
                        Append(@, [filename |-> filename, textures |-> surfaces]),
                     !.loads = Append(@, filename),
                     !.entryIndex = Len(ctx.sky.textureSets)]
    ELSE [ctx EXCEPT !.entryIndex = setEntryIndex[1]]

\* The animated land of a filename: the .DFA files hold frameCount frames, any
\* other file is one image.
addAnimatedLand(ctx, animFilename, angle, frameCount) ==
    LET hasMultipleFrames == find(animFilename, <<".", "D", "F", "A">>) # -1
        added == addTextureSetIfMissing(ctx, animFilename,
                    getTextureSetEntryIndex(ctx.sky.textureSets, animFilename),
                    IF hasMultipleFrames
                    THEN make8BitSurfaces(animFilename, frameCount)
                    ELSE <<make8BitSurface(animFilename)>>)
    IN [added EXCEPT !.sky.animLandObjects =
            Append(@, AnimatedLandObject(added.entryIndex, angle))]

\* The animated land as seen from the city at locationGlobalPos: the animation
\* by the map distance, the angle by atan2.
placeAnimatedLandFrom(ctx, locationGlobalPos, frameCount) ==
    LET dist == getDistance(locationGlobalPos.x, locationGlobalPos.y,
                            animLandGlobalPosX, animLandGlobalPosY)
        angle == atan2(locationGlobalPos.y - animLandGlobalPosY,
                       animLandGlobalPosX - locationGlobalPos.x)
        animIndex == animIndexOf(dist)
    IN addAnimatedLand(ctx, toUppercase(animDistantMountainFilenames[animIndex + 1]),
                       angle, frameCount)

\* "Initialize animated lands (if any)"; frameCount is the number of frames
\* the .DFA file holds.
placeAnimatedLand(ctx, hasAnimatedDistantLand, citySeed, frameCount) ==
    IF hasAnimatedDistantLand
    THEN placeAnimatedLandFrom(ctx, getLocalCityPoint(citySeed), frameCount)
    ELSE ctx

\* DistantSky::getTextureSetCount
getTextureSetCount(s, index) == Len(s.textureSets[index + 1].textures)

\* A faulty loop: the frame index wraps one frame too late.
RECURSIVE advanceFramesWrapLate(_, _)
advanceFramesWrapLate(anim, textureCount) ==
    IF anim.currentFrameTime >= anim.targetFrameTime
    THEN advanceFramesWrapLate(
            [anim EXCEPT !.currentFrameTime = @ - anim.targetFrameTime,
                         !.index = IF @ < textureCount THEN @ + 1 ELSE 0],
            textureCount)
    ELSE anim

\* The while loop of AnimatedLandObject::update
RECURSIVE advanceFrames(_, _)
advanceFrames(anim, textureCount) ==
    IF anim.currentFrameTime >= anim.targetFrameTime
    THEN advanceFrames(
            [anim EXCEPT !.currentFrameTime = @ - anim.targetFrameTime,
                         !.index = IF @ < textureCount - 1 THEN @ + 1 ELSE 0],
            textureCount)
    ELSE anim

\* A faulty update: a do-while, the frame advances before the time is compared.
updateDoWhile(anim, dt, textureCount) ==
    IF textureCount > 0
    THEN advanceFrames([anim EXCEPT !.currentFrameTime = @ + dt - anim.targetFrameTime,
                                    !.index = IF @ < textureCount - 1 THEN @ + 1 ELSE 0],
                       textureCount)
    ELSE anim

\* A faulty update: an 'if' for the 'while', at most one frame per call.
updateSingleStep(anim, dt, textureCount) ==
    IF textureCount > 0
    THEN LET t == anim.currentFrameTime + dt
         IN IF t >= anim.targetFrameTime
            THEN [anim EXCEPT !.currentFrameTime = t - anim.targetFrameTime,
                              !.index = IF @ < textureCount - 1 THEN @ + 1 ELSE 0]
            ELSE [anim EXCEPT !.currentFrameTime = t]
    ELSE anim

\* AnimatedLandObject::update, textureCount being
\* distantSky.getTextureSetCount(this->setEntryIndex)
update(anim, dt, textureCount) ==
    IF textureCount > 0
    THEN advanceFrames([anim EXCEPT !.currentFrameTime = @ + dt], textureCount)
    ELSE anim

---------------------------------------------------------------------------
(* Moons *)

\* A faulty phase: the second moon is not 14 days ahead of the first.
moonPhaseIndexNoOffset(currentDay, type) == currentDay % phaseCount

moonPhaseIndex(currentDay, type) ==
    IF type = "First" THEN currentDay % phaseCount
    ELSE (currentDay + 14) % phaseCount

\* static_cast<int>(MoonObject::Type)
moonTypeIndex(type) == IF type = "First" THEN 0 ELSE 1

\* makeMoon and the push_back of its result; the moon files hold one frame
\* per phase.
pushMoon(ctx, filename, phaseIndex, type) ==
    LET added == addTextureIfMissing(ctx, filename,
                    getTextureEntryIndex(ctx.sky.textures, filename),
                    make8BitSurfaces(filename, phaseCount)[phaseIndex + 1])
    IN [added EXCEPT !.sky.moonObjects =
            Append(@, [entryIndex |-> added.entryIndex,
                       phasePercent |-> phaseIndex,
                       type |-> type])]

makeMoon(ctx, currentDay, type) ==
    pushMoon(ctx, toUppercase(moonFilenames[moonTypeIndex(type) + 1]),
             moonPhaseIndex(currentDay, type), type)

---------------------------------------------------------------------------
(* Stars *)

NO_STAR_TYPE == -1
STAR_SEED_HI == 4660
STAR_SEED_LO == 22137

\* getRndCoord: (0x800 + random.next()) & 0x0FFF, negated unless bit 1 is clear
getRndCoord(value) ==
    LET d == (2048 + value) % 4096
    IN IF (d \div 2) % 2 = 0 THEN d ELSE -d

\* static_cast<int16_t>(value) >> 9, stored in an int8_t
subStarDelta(value) ==
    LET signed == IF value >= 32768 THEN value - U16 ELSE value
    IN IF signed >= 0 THEN signed \div 512 ELSE -((-signed + 511) \div 512)

\* The sub-stars of a constellation: n times dx, dy, color
RECURSIVE makeSubStars(_, _, _)
makeSubStars(random, n, starList) ==
    IF n > 0 /\ Evaluated(random) /\ Evaluated(starList)
    THEN LET d1 == next(random)
             d2 == next(d1.random)
             d3 == next(d2.random)
         IN makeSubStars(d3.random, n - 1,
                         Append(starList, [dx |-> subStarDelta(d1.value),
                                           dy |-> subStarDelta(d2.value),
                                           color |-> (d3.value % 10) + 64]))
    ELSE [random |-> random, starList |-> starList]

\* A faulty draw of a large star's type: a planet slot already taken is not redrawn.
RECURSIVE largeStarTypeNoRedraw(_, _)
largeStarTypeNoRedraw(random, planets) ==
    LET d == next(random)
    IN [random |-> d.random, value |-> d.value % 8]

\* do { value = random.next() % 8; } while ((value >= 5) && planets.at(value - 5));
RECURSIVE largeStarType(_, _)
largeStarType(random, planets) ==
    LET d == next(random)
        value == d.value % 8
    IN IF value >= 5 /\ planets[(value - 5) + 1]
       THEN largeStarType(d.random, planets)
       ELSE [random |-> d.random, value |-> value]

\* "if (selection != 0)": a constellation of n = 2 + (next() % 4) sub-stars
makeConstellation(ctx, x, y, z, dn) ==
    LET subs == makeSubStars(dn.random, 2 + (dn.value % 4), <<>>)
    IN [ctx EXCEPT !.random = subs.random,
                   !.stars = Append(@, [x |-> x, y |-> y, z |-> z,
                                        subList |-> subs.starList,
                                        type |-> NO_STAR_TYPE])]

\* "else": a large star of the drawn type; a planet's slot is marked taken
makeLargeStar(ctx, x, y, z, drawn) ==
    [ctx EXCEPT !.random = drawn.random,
                !.stars = Append(@, [x |-> x, y |-> y, z |-> z,
                                     subList |-> <<>>,
                                     type |-> drawn.value]),
                !.planets = IF drawn.value >= 5
                            THEN [@ EXCEPT ![(drawn.value - 5) + 1] = TRUE]
                            ELSE @]

\* The star at the drawn coordinates, of the drawn kind
makeStar(ctx, x, y, z, selection, random) ==
    IF selection # 0
    THEN makeConstellation(ctx, x, y, z, next(random))
    ELSE makeLargeStar(ctx, x, y, z, largeStarType(random, ctx.planets))

\* One iteration of the star generation loop; ctx holds the local variables
\* random, stars and planets.
generateStar(ctx) ==
    LET dx == next(ctx.random)
        dy == next(dx.random)
        dz == next(dy.random)
        ds == next(dz.random)
    IN makeStar(ctx, getRndCoord(dx.value), getRndCoord(dy.value),
                getRndCoord(dz.value), ds.value % 4, ds.random)

RECURSIVE generateStars(_, _)
generateStars(ctx, starCount) ==
    IF starCount > 0 /\ Evaluated(ctx)
    THEN generateStars(generateStar(ctx), starCount - 1)
    ELSE ctx

\* A faulty comparator: the stars are ordered by descending type.
starLessReversed(a, b) == a.type > b.type

\* The comparator of the sort: a.type < b.type
starLess(a, b) == a.type < b.type

\* std::sort with starLess.  The order of stars that compare equal is not
\* specified by std::sort; ties says how the library at hand leaves them:
\* "kept" in generation order or "reversed".
SortTies == {"kept", "reversed"}

sortStars(stars, ties) ==
    LET n == Len(stars)
        tieBefore(j, i) == IF ties = "kept" THEN j < i ELSE j > i
        before(j, i) ==
            \/ starLess(stars[j], stars[i])
            \/ /\ ~starLess(stars[i], stars[j])
               /\ tieBefore(j, i)
        rank == [i \in 1..n |-> Cardinality({j \in 1..n : before(j, i)})]
    IN [k \in 1..n |-> stars[CHOOSE i \in 1..n : rank[i] = k - 1]]

\* The color of a small star: the default palette's entry as ARGB
paletteColor(color) == [palette |-> "Default", index |-> color]

\* The direction of a sub-star: the base direction rotated by the deltas
subDirection(star, subStar) ==
    [base |-> <<star.x, star.y, star.z>>, dx |-> subStar.dx, dy |-> subStar.dy]

\* The direction of a star: its raw position, normalized
starDirection(star) == [base |-> <<star.x, star.y, star.z>>, dx |-> 0, dy |-> 0]

\* The file of a large star: the star template with its '1' replaced by type + 1
largeStarFilename(type) ==
    LET typeStr == to_string(type + 1)
        index == find(starFilename, <<"1">>)
        filename == SubSeq(starFilename, 1, index) \o typeStr
                    \o SubSeq(starFilename, index + 2, Len(starFilename))
    IN toUppercase(filename)

\* A faulty conversion: a constellation becomes one small star, its first.
convertStarOnePerStar(ctx, star) ==
    [ctx EXCEPT !.sky.starObjects =
        Append(@, [type |-> "Small",
                   small |-> [color |-> paletteColor(64)],
                   direction |-> starDirection(star)])]

\* A large star: its texture is loaded if the store misses it
pushLargeStar(ctx, filename, star) ==
    LET added == addTextureIfMissing(ctx, filename,
                    getTextureEntryIndex(ctx.sky.textures, filename),
                    make8BitSurface(filename))
    IN [added EXCEPT !.sky.starObjects =
            Append(@, [type |-> "Large",
                       large |-> [entryIndex |-> added.entryIndex],
                       direction |-> starDirection(star)])]

\* One iteration of "Convert stars to modern representation"
convertStar(ctx, star) ==
    LET isSmallStar == star.type = -1
    IN IF isSmallStar
       THEN [ctx EXCEPT !.sky.starObjects =
                @ \o [k \in 1..Len(star.subList) |->
                        [type |-> "Small",
                         small |-> [color |-> paletteColor(star.subList[k].color)],
                         direction |-> subDirection(star, star.subList[k])]]]
       ELSE pushLargeStar(ctx, largeStarFilename(star.type), star)

RECURSIVE convertStars(_, _)
convertStars(ctx, k) ==
    IF k <= Len(ctx.stars) /\ Evaluated(ctx)
    THEN convertStars(convertStar(ctx, ctx.stars[k]), k + 1)
    ELSE ctx

\* "Initialize stars": generate, sort, convert
placeStars(ctx, starCount, ties) ==
    convertStars(
        [generateStars([ctx EXCEPT !.random = srand(<<STAR_SEED_HI, STAR_SEED_LO>>)],
                       starCount)
            EXCEPT !.stars = sortStars(@, ties)],
        1)

\* "Initialize sun texture index"
placeSun(ctx) ==
    LET filename == toUppercase(sunFilename)
        added == addTextureIfMissing(ctx, filename,
                    getTextureEntryIndex(ctx.sky.textures, filename),
                    make8BitSurface(filename))
    IN [added EXCEPT !.sky.sunEntryIndex = <<added.entryIndex>>]

\* A faulty gate: the space objects are made in any weather.
placeSpaceObjectsAnyWeather(ctx, weatherType, currentDay, starCount, ties) ==
    placeSun(placeStars(makeMoon(makeMoon(ctx, currentDay, "First"),
                                 currentDay, "Second"),
                        starCount, ties))

\* The space objects, if the weather is clear
placeSpaceObjects(ctx, weatherType, currentDay, starCount, ties) ==
    LET hasSpaceObjects == weatherType = "Clear"
    IN IF hasSpaceObjects
       THEN placeSun(placeStars(makeMoon(makeMoon(ctx, currentDay, "First"),
                                         currentDay, "Second"),
                                starCount, ties))
       ELSE ctx

---------------------------------------------------------------------------
(* The aggregate *)

\* A default-constructed DistantSky
EmptySky ==
    [landObjects |-> <<>>, animLandObjects |-> <<>>, airObjects |-> <<>>,
     moonObjects |-> <<>>, starObjects |-> <<>>, sunEntryIndex |-> <<>>,
     textures |-> <<>>, textureSets |-> <<>>]

\* ArenaRandom random(cityDef.distantSkySeed)
newArenaRandom(distantSkySeed) == srand(distantSkySeed)

\* DistantSky::init on the aggregate s
init(s, in, ties) ==
    LET ctx0 == [sky |-> s, random |-> newArenaRandom(in.distantSkySeed),
                 requests |-> <<>>, loads |-> <<>>, entryIndex |-> -1,
                 stars |-> <<>>, planets |-> <<FALSE, FALSE, FALSE>>,
                 cloudSeed |-> <<>>]
        ctx1 == placeMountains(ctx0, in.climateType)
        ctx2 == placeClouds(ctx1, in.weatherType, in.currentDay)
        ctx3 == placeAnimatedLand(ctx2, in.hasAnimatedDistantLand, in.citySeed,
                                  in.animFrames)
    IN placeSpaceObjects(ctx3, in.weatherType, in.currentDay, in.starCount, ties)

\* DistantSky::hasSun
hasSun(s) == s.sunEntryIndex # <<>>

\* The counts of the collections
getLandObjectCount(s) == Len(s.landObjects)

getAnimatedLandObjectCount(s) == Len(s.animLandObjects)

getAirObjectCount(s) == Len(s.airObjects)

getMoonObjectCount(s) == Len(s.moonObjects)

getStarObjectCount(s) == Len(s.starObjects)

\* How a call ends: DebugAssert aborts the program at the call site, or the
\* call returns a value.
Fault == [ok |-> FALSE]

Return(value) == [ok |-> TRUE, value |-> value]

\* DebugAssertIndex(container, index): the index is inside the container
DebugAssertIndex(container, index) == index >= 0 /\ index < Len(container)

getLandObject(s, index) ==
    IF DebugAssertIndex(s.landObjects, index)
    THEN Return(s.landObjects[index + 1]) ELSE Fault

getAnimatedLandObject(s, index) ==
    IF DebugAssertIndex(s.animLandObjects, index)
    THEN Return(s.animLandObjects[index + 1]) ELSE Fault

getAirObject(s, index) ==
    IF DebugAssertIndex(s.airObjects, index)
    THEN Return(s.airObjects[index + 1]) ELSE Fault

getMoonObject(s, index) ==
    IF DebugAssertIndex(s.moonObjects, index)
    THEN Return(s.moonObjects[index + 1]) ELSE Fault

getStarObject(s, index) ==
    IF DebugAssertIndex(s.starObjects, index)
    THEN Return(s.starObjects[index + 1]) ELSE Fault

\* A faulty getSunEntryIndex: a sentinel index for the fault.
getSunEntryIndexSentinel(s) ==
    Return(IF s.sunEntryIndex # <<>> THEN s.sunEntryIndex[1] ELSE -1)

\* DebugAssert(this->sunEntryIndex.has_value()); return *this->sunEntryIndex;
getSunEntryIndex(s) ==
    IF s.sunEntryIndex # <<>> THEN Return(s.sunEntryIndex[1]) ELSE Fault

\* The view is of the entry's pixel buffer
getTexture(s, index) ==
    IF DebugAssertIndex(s.textures, index)
    THEN Return(s.textures[index + 1].texture) ELSE Fault

\* DistantSky::getTextureSetCount as a call of its own, with its assertion
getTextureSetCountAsserted(s, index) ==
    IF DebugAssertIndex(s.textureSets, index)
    THEN Return(getTextureSetCount(s, index)) ELSE Fault

\* Buffer<T>::get(index): asserts the index, then returns the element
BufferGet(buffer, index) ==
    IF DebugAssertIndex(buffer, index) THEN Return(buffer[index + 1]) ELSE Fault

getTextureSetElement(s, index, elementIndex) ==
    IF DebugAssertIndex(s.textureSets, index)
    THEN BufferGet(s.textureSets[index + 1].textures, elementIndex)
    ELSE Fault

\* The indexed accessors, and the call of one of them
Accessors ==
    {"getLandObject", "getAnimatedLandObject", "getAirObject", "getMoonObject",
     "getStarObject", "getSunEntryIndex", "getTexture", "getTextureSetCount",
     "getTextureSetElement"}

callAccessor(s, call) ==
    CASE call.accessor = "getLandObject" -> getLandObject(s, call.index)
      [] call.accessor = "getAnimatedLandObject" -> getAnimatedLandObject(s, call.index)
      [] call.accessor = "getAirObject" -> getAirObject(s, call.index)
      [] call.accessor = "getMoonObject" -> getMoonObject(s, call.index)
      [] call.accessor = "getStarObject" -> getStarObject(s, call.index)
      [] call.accessor = "getSunEntryIndex" -> getSunEntryIndex(s)
      [] call.accessor = "getTexture" -> getTexture(s, call.index)
      [] call.accessor = "getTextureSetCount" -> getTextureSetCountAsserted(s, call.index)
      [] call.accessor = "getTextureSetElement" ->
            getTextureSetElement(s, call.index, call.elementIndex)

\* A faulty tick: the elapsed time also lengthens each animation's frame time.
tickRetiming(s, dt) ==
    [s EXCEPT !.animLandObjects =
        [k \in 1..Len(s.animLandObjects) |->
            [update(s.animLandObjects[k], dt,
                    getTextureSetCount(s, s.animLandObjects[k].setEntryIndex))
                EXCEPT !.targetFrameTime = @ + dt]]]

\* DistantSky::tick
tick(s, dt) ==
    [s EXCEPT !.animLandObjects =
        [k \in 1..Len(s.animLandObjects) |->
            update(s.animLandObjects[k], dt,
                   getTextureSetCount(s, s.animLandObjects[k].setEntryIndex))]]

---------------------------------------------------------------------------
(* The state machine *)

Seeds == {<<0, 3>>, <<51966, 47806>>}

CitySeeds == {<<100, 60>>, <<20, 30>>, <<300, 190>>}

Days == {d * DayStride : d \in 0..MaxDaySteps}

StarCounts == {0, 1, MaxStarCount}

Inputs ==
    {in \in [distantSkySeed : Seeds, citySeed : CitySeeds,
             climateType : ClimateTypes, weatherType : WeatherTypes,
             currentDay : Days, starCount : StarCounts,
             hasAnimatedDistantLand : BOOLEAN, animFrames : 0..MaxFrames] :
        /\ in.weatherType # "Clear" => in.starCount \in {0, MaxStarCount}
        /\ ~in.hasAnimatedDistantLand =>
                (in.citySeed = <<100, 60>> /\ in.animFrames = 1)}

\* The arguments of an accessor call: the index, and the element index that
\* only getTextureSetElement takes.
Indices == -1..MaxIndex

Calls ==
    {c \in [accessor : Accessors, index : Indices, elementIndex : Indices] :
        /\ c.accessor # "getTextureSetElement" => c.elementIndex = 0
        /\ c.accessor = "getSunEntryIndex" => c.index = 0}

NoResult == [call |-> <<>>, outcome |-> <<>>]

Init ==
    /\ input \in Inputs
    /\ pc = "fresh"
    /\ sky = EmptySky
    /\ genStars = <<>>
    /\ requests = <<>>
    /\ loads = <<>>
    /\ lastDt = -1
    /\ reseeded = <<>>
    /\ result = NoResult

DoInit ==
    /\ pc = "fresh"
    /\ \E ties \in SortTies :
        \E ctx \in {init(sky, input, ties)} :
           /\ sky' = ctx.sky
           /\ genStars' = ctx.stars
           /\ requests' = ctx.requests
           /\ loads' = ctx.loads
           /\ reseeded' = ctx.cloudSeed
    /\ pc' = "done"
    /\ UNCHANGED <<input, lastDt, result>>

Tick ==
    /\ pc = "done"
    /\ \E dt \in 0..MaxDt :
        /\ sky' = tick(sky, dt)
        /\ lastDt' = dt
    /\ result' = NoResult
    /\ UNCHANGED <<input, pc, genStars, requests, loads, reseeded>>

\* A call of an accessor on the generated aggregate; the accessors are const,
\* and a failed assertion ends the program.
Access ==
    /\ pc = "done"
    /\ \E call \in Calls :
        \E outcome \in {callAccessor(sky, call)} :
            /\ result' = [call |-> <<call>>, outcome |-> <<outcome>>]
            /\ pc' = IF outcome.ok THEN "done" ELSE "fault"
    /\ UNCHANGED <<input, sky, genStars, requests, loads, lastDt, reseeded>>

Next == DoInit \/ Tick

Spec == Init /\ [][Next]_vars

\* The aggregate with its readers: init, the ticks and the accessor calls, for
\* one city in every weather, star count and animated land.
AccessInputs ==
    {in \in Inputs :
        /\ in.distantSkySeed = <<51966, 47806>>
        /\ in.citySeed = <<100, 60>>
        /\ in.climateType = "Temperate"
        /\ in.currentDay = 0}

InitAccess ==
    /\ input \in AccessInputs
    /\ pc = "fresh"
    /\ sky = EmptySky
    /\ genStars = <<>>
    /\ requests = <<>>
    /\ loads = <<>>
    /\ lastDt = -1
    /\ reseeded = <<>>
    /\ result = NoResult

NextAccess == DoInit \/ Tick \/ Access

SpecAccess == InitAccess /\ [][NextAccess]_vars

---------------------------------------------------------------------------
(* Properties *)

Done == pc = "done"

TwoPi == UNIQUE_ANGLES

\* The frame count of the texture set an animated land object refers to
FrameCount(anim) == getTextureSetCount(sky, anim.setEntryIndex)

AnimObjects == Range(sky.animLandObjects)

StaticAngles ==
    {sky.landObjects[i].angleRadians : i \in 1..Len(sky.landObjects)}
    \cup {sky.airObjects[i].angleRadians : i \in 1..Len(sky.airObjects)}

\* The type of a large star object, read back from the numeral of its file
DigitValue(c) == (CHOOSE d \in 1..10 : Digits[d] = c) - 1

LargeStarObjectType(obj) ==
    DigitValue(sky.textures[obj.large.entryIndex + 1]
                    .filename[find(starFilename, <<"1">>) + 1]) - 1

LargeObjects == {i \in 1..Len(sky.starObjects) : sky.starObjects[i].type = "Large"}

SmallObjects == {i \in 1..Len(sky.starObjects) : sky.starObjects[i].type = "Small"}

\* C1: within one init run, requests of the same filename resolve to the same
\* texture index (the entry that carries the filename), the image loader is
\* called at most once per filename, and no two entries of the texture store
\* carry the same filename.
C1_TextureDedup ==
    Done =>
        /\ \A i, j \in 1..Len(requests) :
                requests[i].filename = requests[j].filename
                    => requests[i].index = requests[j].index
        /\ \A i \in 1..Len(requests) :
                /\ requests[i].index \in 0..(Len(sky.textures) - 1)
                /\ sky.textures[requests[i].index + 1].filename = requests[i].filename
        /\ \A i, j \in 1..Len(loads) : loads[i] = loads[j] => i = j
        /\ \A i, j \in 1..Len(sky.textures) :
                sky.textures[i].filename = sky.textures[j].filename => i = j

\* C1 witness: init has run and some filename was requested more than once.
C1_Witness ==
    /\ Done
    /\ \E i, j \in 1..Len(requests) :
            i < j /\ requests[i].filename = requests[j].filename
    /\ Len(sky.airObjects) > 0 /\ Len(sky.moonObjects) > 0 /\ LargeObjects # {}

C4_FrameAdvance ==
    [][(Done /\ pc' = "done") =>
        \A n \in 1..Len(sky.animLandObjects) :
            LET a == sky.animLandObjects[n]
                b == sky'.animLandObjects[n]
                N == FrameCount(a)
                T == a.targetFrameTime
                k == (a.currentFrameTime + lastDt') \div T
            IN (N > 0 /\ T > 0 /\ a.currentFrameTime \in 0..(T - 1)
                      /\ a.index \in 0..(N - 1) /\ lastDt' >= 0) =>
                    /\ b.currentFrameTime = (a.currentFrameTime + lastDt') - k * T
                    /\ b.index = (a.index + k) % N]_vars

\* C4 witness: with a frame time of 2 quanta (1.0) and 3 frames, a tick of
\* 5 quanta (2.5) has left the time at 1 quantum (0.5) and the index at 2.
C4_Witness ==
    /\ Done
    /\ lastDt = 5
    /\ \E anim \in AnimObjects :
            /\ FrameCount(anim) = 3 /\ anim.targetFrameTime = 2
            /\ anim.currentFrameTime = 1 /\ anim.index = 2

\* C5: after init and any ticks, tick(0) changes neither the frame index nor
\* the accumulated frame time of any animated land object.
C5_ZeroDt ==
    [][(Done /\ pc' = "done" /\ lastDt' = 0) =>
            sky'.animLandObjects = sky.animLandObjects]_vars

\* C5 witness: tick(0) was called on an animation that had advanced.
C5_Witness ==
    /\ Done
    /\ lastDt = 0
    /\ \E anim \in AnimObjects :
            FrameCount(anim) > 1 /\ anim.index > 0 /\ anim.currentFrameTime > 0

\* C6 as stated: the frame index of every animated land object is always in
\* [0, frame count of its texture set).
C6_FrameIndexValidAsStated ==
    \A anim \in AnimObjects : 0 <= anim.index /\ anim.index < FrameCount(anim)

\* C6 amended: when the texture set has at least one frame the frame index is
\* in [0, frame count); for a set without frames it stays 0.
C6_FrameIndexValid ==
    \A anim \in AnimObjects :
        IF FrameCount(anim) > 0
        THEN 0 <= anim.index /\ anim.index < FrameCount(anim)
        ELSE anim.index = 0

\* C6 witness: an animation that a tick has brought to its last frame.
C6_Witness ==
    /\ Done
    /\ lastDt > 0
    /\ \E anim \in AnimObjects :
            FrameCount(anim) > 1 /\ anim.index = FrameCount(anim) - 1

\* C7: no two large stars of a starfield have the same type in [5, 8);
\* types in [0, 5) may repeat.
C7_PlanetUnique ==
    Done =>
        /\ \A i, j \in 1..Len(genStars) :
                (genStars[i].type >= 5 /\ genStars[i].type = genStars[j].type) => i = j
        /\ \A i, j \in LargeObjects :
                (LargeStarObjectType(sky.starObjects[i]) >= 5
                    /\ LargeStarObjectType(sky.starObjects[i])
                        = LargeStarObjectType(sky.starObjects[j])) => i = j

\* C7 witness: a starfield with all three planets and a repeated type below 5.
C7_Witness ==
    /\ Done
    /\ \A t \in 5..7 : \E i \in 1..Len(genStars) : genStars[i].type = t
    /\ \E i, j \in 1..Len(genStars) :
            i < j /\ genStars[i].type = genStars[j].type /\ genStars[i].type \in 0..4

C9_CloudCountAsStated ==
    (Done /\ input.weatherType = "Clear") =>
        /\ Len(sky.landObjects) \in 2..5
        /\ Len(sky.airObjects) \in 0..6

\* C9 amended: init produces 2 + (first draw mod 4) land objects, between 2 and
\* 5, and under clear weather exactly 7 air objects (none otherwise).
C9_CloudCount ==
    Done =>
        /\ Len(sky.landObjects) = 2 + (next(input.distantSkySeed).value % 4)
        /\ Len(sky.landObjects) \in 2..5
        /\ Len(sky.airObjects) = IF input.weatherType = "Clear" THEN 7 ELSE 0

\* C9 witness: a clear-weather sky with its clouds.
C9_Witness ==
    /\ Done
    /\ input.weatherType = "Clear"
    /\ Len(sky.landObjects) = 5
    /\ Len(sky.airObjects) = 7

\* The number of star objects a generated star becomes
StarObjectsOf(star) == IF star.type = NO_STAR_TYPE THEN Len(star.subList) ELSE 1

RECURSIVE SumStarObjects(_, _)
SumStarObjects(stars, k) ==
    IF k > Len(stars) THEN 0
    ELSE StarObjectsOf(stars[k]) + SumStarObjects(stars, k + 1)

\* C10 as stated: under clear weather the star collection has exactly
\* starCount entries.
C10_StarCountAsStated ==
    (Done /\ input.weatherType = "Clear") =>
        Len(sky.starObjects) = input.starCount

\* C10 amended: under clear weather the generated star list has exactly
\* starCount entries; the star collection has one entry per large star and one
\* per sub-star of a constellation (2 to 5 each), so between starCount and
\* 5 * starCount entries.
C10_StarCount ==
    (Done /\ input.weatherType = "Clear") =>
        /\ Len(genStars) = input.starCount
        /\ \A i \in 1..Len(genStars) :
                genStars[i].type = NO_STAR_TYPE => Len(genStars[i].subList) \in 2..5
        /\ Len(sky.starObjects) = SumStarObjects(genStars, 1)
        /\ Len(sky.starObjects) >= input.starCount
        /\ Len(sky.starObjects) <= 5 * input.starCount

\* C10 witness: a starfield of several stars, constellations among them, with
\* more star objects than stars.
C10_Witness ==
    /\ Done
    /\ input.starCount > 1
    /\ Len(genStars) = input.starCount
    /\ LargeObjects # {}
    /\ Len(sky.starObjects) > input.starCount

\* C11: under clear weather init leaves exactly two moon objects, the First
\* kind then the Second kind, with phasePercent (d mod 32)/32 and
\* ((d + 14) mod 32)/32 for the day count d, each in [0, 1), and the texture
\* entry of each moon is the frame of its own moon file at its phase index.
C11_MoonPhases ==
    (Done /\ input.weatherType = "Clear") =>
        /\ Len(sky.moonObjects) = 2
        /\ sky.moonObjects[1].type = "First"
        /\ sky.moonObjects[2].type = "Second"
        /\ sky.moonObjects[1].phasePercent = input.currentDay % 32
        /\ sky.moonObjects[2].phasePercent = (input.currentDay + 14) % 32
        /\ \A k \in 1..2 :
                /\ sky.moonObjects[k].phasePercent \in 0..31
                /\ sky.moonObjects[k].entryIndex \in 0..(Len(sky.textures) - 1)
                /\ sky.textures[sky.moonObjects[k].entryIndex + 1] =
                        [filename |-> toUppercase(moonFilenames[k]),
                         texture |-> [file |-> toUppercase(moonFilenames[k]),
                                      frame |-> sky.moonObjects[k].phasePercent]]

\* C11 witness: a day on which the second moon's phase has wrapped to 0 while
\* the first moon's has not.
C11_Witness ==
    /\ Done
    /\ input.currentDay > 0
    /\ Len(sky.moonObjects) = 2
    /\ sky.moonObjects[1].phasePercent > 0
    /\ sky.moonObjects[2].phasePercent = 0

\* C12: after init hasSun() is true exactly under clear weather; in any other
\* weather the air, moon and star collections are empty and no sun index is
\* set, while the land objects, and the animated land of a province that has
\* one, are there in any weather; there is never more than one sun entry.
C12_WeatherGating ==
    /\ Len(sky.sunEntryIndex) <= 1
    /\ Done =>
        /\ hasSun(sky) <=> input.weatherType = "Clear"
        /\ input.weatherType # "Clear" =>
                /\ sky.airObjects = <<>>
                /\ sky.moonObjects = <<>>
                /\ sky.starObjects = <<>>
                /\ sky.sunEntryIndex = <<>>
        /\ Len(sky.landObjects) >= 2
        /\ Len(sky.animLandObjects) = IF input.hasAnimatedDistantLand THEN 1 ELSE 0

\* C12 witness: an overcast sky, asked for stars on a later day in a province
\* with animated land, that has its mountains and its animated land.
C12_Witness ==
    /\ Done
    /\ input.weatherType = "Overcast"
    /\ input.starCount = MaxStarCount
    /\ input.currentDay > 0
    /\ Len(sky.landObjects) = 5
    /\ Len(sky.animLandObjects) = 1
    /\ ~hasSun(sky)

\* The generator's state after k draws from seed, and the k-th draw
RECURSIVE RandomAfter(_, _)
RandomAfter(seed, k) ==
    IF k = 0 THEN seed ELSE next(RandomAfter(seed, k - 1)).random

DrawOf(seed, k) == next(RandomAfter(seed, k - 1)).value

\* The file a land or air object shows
LandFilename(i) == sky.textures[sky.landObjects[i].entryIndex + 1].filename

AirFilename(j) == sky.textures[sky.airObjects[j].entryIndex + 1].filename

\* The mountains are made of draws 1 .. 1 + 2*count from the location's seed:
\* the count, then per mountain the variant and the angle.
MountainDraws ==
    LET seed == input.distantSkySeed
        traits == MountainTraits[input.climateType]
        base == distantMountainFilenames[traits.filenameIndex + 1]
    IN /\ Len(sky.landObjects) = (DrawOf(seed, 1) % 4) + 2
       /\ \A i \in 1..Len(sky.landObjects) :
            /\ LandFilename(i) =
                    staticFilename(base, traits.position, traits.maxDigits,
                        variantDigits(DrawOf(seed, 2 * i) % traits.variation,
                                      traits.variation))
            /\ sky.landObjects[i].angleRadians =
                    arenaAngleToRadians(DrawOf(seed, 2 * i + 1) % UNIQUE_ANGLES)

\* The clouds are made of draws 1 .. 21 from the seed cs: per cloud the
\* variant, the height and the angle.
CloudDraws(cs) ==
    /\ Len(sky.airObjects) = cloudCount
    /\ \A j \in 1..Len(sky.airObjects) :
            /\ AirFilename(j) =
                    staticFilename(cloudFilename, cloudPos, cloudMaxDigits,
                        variantDigits(DrawOf(cs, 3 * j - 2) % cloudVar, cloudVar))
            /\ sky.airObjects[j].height = DrawOf(cs, 3 * j - 1) % yPosLimit
            /\ sky.airObjects[j].angleRadians =
                    arenaAngleToRadians(DrawOf(cs, 3 * j) % UNIQUE_ANGLES)

\* C13 as stated: under clear weather the generator is reseeded for the clouds
\* with the location's distant-sky seed plus (day mod 32), and the clouds are
\* the draws that follow that seed.
C13_CloudReseedAsStated ==
    (Done /\ input.weatherType = "Clear") =>
        /\ reseeded = <<AddU32(input.distantSkySeed, input.currentDay % 32)>>
        /\ CloudDraws(AddU32(input.distantSkySeed, input.currentDay % 32))

\* C13 amended: the mountains take one count draw and then per mountain a
\* variant draw and an angle draw; under clear weather the generator is then
\* reseeded with its current value, the one those 1 + 2*count draws left, plus
\* (day mod 32), and per cloud the draws are variant, height, angle; in other
\* weather there is no reseed.
C13_CloudReseed ==
    Done =>
        /\ MountainDraws
        /\ IF input.weatherType = "Clear"
           THEN LET current == RandomAfter(input.distantSkySeed,
                                           1 + 2 * Len(sky.landObjects))
                    cs == AddU32(current, input.currentDay % 32)
                IN reseeded = <<cs>> /\ CloudDraws(cs)
           ELSE reseeded = <<>>

\* C13 witness: a clear sky of a later day with five mountains, whose cloud
\* seed is not the location's seed plus the day.
C13_Witness ==
    /\ Done
    /\ input.weatherType = "Clear"
    /\ input.currentDay % 32 > 0
    /\ Len(sky.landObjects) = 5
    /\ Len(sky.airObjects) = cloudCount
    /\ reseeded # <<AddU32(input.distantSkySeed, input.currentDay % 32)>>

\* The count an accessor's index is bounded by
CountFor(accessor) ==
    CASE accessor = "getLandObject" -> getLandObjectCount(sky)
      [] accessor = "getAnimatedLandObject" -> getAnimatedLandObjectCount(sky)
      [] accessor = "getAirObject" -> getAirObjectCount(sky)
      [] accessor = "getMoonObject" -> getMoonObjectCount(sky)
      [] accessor = "getStarObject" -> getStarObjectCount(sky)
      [] accessor = "getTexture" -> Len(sky.textures)
      [] accessor = "getTextureSetCount" -> Len(sky.textureSets)
      [] accessor = "getTextureSetElement" -> Len(sky.textureSets)
      [] accessor = "getSunEntryIndex" -> Len(sky.sunEntryIndex)

\* The call's index, and element index, are inside [0, count)
InsideBounds(call) ==
    /\ call.index \in 0..(CountFor(call.accessor) - 1)
    /\ call.accessor = "getTextureSetElement" =>
            call.elementIndex \in 0..(Len(sky.textureSets[call.index + 1].textures) - 1)

\* The element stored at the call's index
StoredAt(call) ==
    CASE call.accessor = "getLandObject" -> sky.landObjects[call.index + 1]
      [] call.accessor = "getAnimatedLandObject" -> sky.animLandObjects[call.index + 1]
      [] call.accessor = "getAirObject" -> sky.airObjects[call.index + 1]
      [] call.accessor = "getMoonObject" -> sky.moonObjects[call.index + 1]
      [] call.accessor = "getStarObject" -> sky.starObjects[call.index + 1]
      [] call.accessor = "getTexture" -> sky.textures[call.index + 1].texture
      [] call.accessor = "getTextureSetCount" ->
            Len(sky.textureSets[call.index + 1].textures)
      [] call.accessor = "getTextureSetElement" ->
            sky.textureSets[call.index + 1].textures[call.elementIndex + 1]
      [] call.accessor = "getSunEntryIndex" -> sky.sunEntryIndex[1]

C15_TickFrame ==
    [][(Done /\ pc' = "done") =>
        /\ sky'.landObjects = sky.landObjects
        /\ sky'.airObjects = sky.airObjects
        /\ sky'.moonObjects = sky.moonObjects
        /\ sky'.starObjects = sky.starObjects
        /\ sky'.textures = sky.textures
        /\ sky'.textureSets = sky.textureSets
        /\ sky'.sunEntryIndex = sky.sunEntryIndex
        /\ Len(sky'.animLandObjects) = Len(sky.animLandObjects)
        /\ \A n \in 1..Len(sky.animLandObjects) :
                [sky'.animLandObjects[n] EXCEPT !.currentFrameTime = 0, !.index = 0]
                    = [sky.animLandObjects[n] EXCEPT !.currentFrameTime = 0, !.index = 0]]_vars

\* C15 witness: ticks have moved the animation of a sky that has all its
\* collections, its textures and its sun.
C15_Witness ==
    /\ Done
    /\ lastDt > 0
    /\ \E anim \in AnimObjects : anim.index > 0
    /\ sky.landObjects # <<>> /\ sky.airObjects # <<>> /\ sky.moonObjects # <<>>
    /\ Len(sky.starObjects) > 1
    /\ hasSun(sky)

\* The star list in generation order, before the sort
GeneratedStars ==
    generateStars([random |-> srand(<<STAR_SEED_HI, STAR_SEED_LO>>),
                   stars |-> <<>>,
                   planets |-> <<FALSE, FALSE, FALSE>>],
                  Len(genStars)).stars

\* The place of a star in generation order
GenerationIndex(generated, star) ==
    CHOOSE k \in 1..Len(generated) : generated[k] = star

\* C16: the sort is stable: two stars of equal type are in the sorted list in
\* the order they were generated in.
C16_StableSort ==
    Done =>
        LET generated == GeneratedStars
        IN \A i, j \in 1..Len(genStars) :
                (i < j /\ genStars[i].type = genStars[j].type) =>
                    GenerationIndex(generated, genStars[i])
                        < GenerationIndex(generated, genStars[j])

====
